---- MODULE Spec2Model ----
(***************************************************************************)
(* Model of src/static/app.js: the activity list page.                     *)
(*                                                                         *)
(* The page runs on one event loop.  A handler runs atomically from one    *)
(* `await` of a network call to the next; the two awaits of one request    *)
(* (`await fetch(..)` and `await response.json()`) are one step, since the *)
(* handler touches nothing but its own locals between them.  The           *)
(* continuation after `await loadActivities()` runs as a microtask of the  *)
(* task that completed loadActivities, so it belongs to the same step.     *)
(***************************************************************************)
EXTENDS Integers, Sequences, FiniteSets, Bags

\* ---------------------------------------------------------------- bounds
MaxActions == 2      \* user actions (submits and delete clicks) in one run
TickMs == 2500       \* largest amount of time one clock step lets pass

\* ------------------------------------------------------- program constants
HideDelayMs == 5000                       \* app.js:106
SignupFallback == "Failed to sign up"     \* app.js:95
DeleteFallback == "Failed to unregister"  \* app.js:130
AlertPrefix == "Failed to unregister participant: "  \* app.js:134
UNDEF == "undefined"                      \* a missing property, as read by JS

\* ------------------------------------------------- the server's data (§3, §6)
ActivityOrder == <<"Chess Club", "Art Club">>
ActivityNames == {ActivityOrder[i] : i \in 1..Len(ActivityOrder)}
Emails == {"a@x.com"}
SuccessMessages == {"Signed up!"}
Details == {UNDEF, "", "Already signed up"}
CatalogMaxParticipants == 10
NetErrorMessage == "Failed to fetch"
ParseErrorMessage == "Unexpected token"

VARIABLES
  pageReady,     \* DOMContentLoaded has fired
  server,        \* the server's catalog: activity name -> sequence of emails
  flows,         \* the handler invocations suspended at an await (a bag)
  actions,       \* number of user actions so far
  list,          \* #activities-list
  select,        \* #activity: its options and its value
  email,         \* #email
  msg,           \* #message: class list and textContent
  alerted,       \* text of the last alert() raised, "" if none
  timers,        \* pending setTimeout callbacks, oldest first: the time left
                 \* before each is due
  msgAge,        \* time since #message was last shown (saturates above HideDelayMs)
  lastHideAge,   \* msgAge at the last visible -> hidden change, -1 if none
  lastArrived,   \* the GET response loadActivities processed last
  getFailed,     \* some GET response was not the server's well-formed catalog
  declined       \* number of confirmations the user declined

vars == <<pageReady, server, flows, actions, list, select, email, msg, alerted,
          timers, msgAge, lastHideAge, lastArrived, getFailed, declined>>

\* ------------------------------------------------------------- responses
NoData == [message |-> UNDEF, detail |-> UNDEF]
NoResp == [t |-> "none", ok |-> FALSE, parsed |-> FALSE, kind |-> "none",
           data |-> NoData, entries |-> <<>>]
NetFail == [t |-> "netfail", ok |-> FALSE, parsed |-> FALSE, kind |-> "netfail",
            data |-> NoData, entries |-> <<>>]
Http(ok, parsed, kind, data, entries) ==
  [t |-> "http", ok |-> ok, parsed |-> parsed, kind |-> kind,
   data |-> data, entries |-> entries]

\* ------------------------------------------------------------ the catalog
GoodDetails(ps) ==
  [description |-> "desc", schedule |-> "sched",
   max_participants |-> CatalogMaxParticipants, participants |-> ps,
   missing |-> {}]

Snapshot(cat) ==
  [i \in 1..Len(ActivityOrder) |->
     [name |-> ActivityOrder[i], details |-> GoodDetails(cat[ActivityOrder[i]])]]

\* the same catalog with one property of its last entry missing
Without(entries, field) ==
  [i \in 1..Len(entries) |->
     IF i = Len(entries)
       THEN [name |-> entries[i].name,
             details |-> [entries[i].details EXCEPT !.missing = {field}]]
       ELSE entries[i]]

\* {detail: "..."}: Object.entries gives one pair whose value is a string,
\* every property of which reads as undefined
ErrorEntries ==
  << [name |-> "detail",
      details |-> [description |-> UNDEF, schedule |-> UNDEF,
                   max_participants |-> 0, participants |-> <<>>,
                   missing |-> {"description", "schedule", "max_participants",
                                "participants"}]] >>

\* ------------------------------------------------------------- rendering
Prop(details, field) ==
  IF field \in details.missing THEN UNDEF ELSE details[field]

\* lines 30-32: `details.participants.length` raises when participants is missing
RenderThrows(details) == "participants" \in details.missing

ParticipantsList(name, details) ==
  IF Len(details.participants) > 0
    THEN [tag |-> "ul",
          items |-> [i \in 1..Len(details.participants) |->
                       [email |-> details.participants[i],
                        activity |-> name, btnEmail |-> details.participants[i]]]]
    ELSE [tag |-> "p.no-participants", items |-> <<>>]

Card(name, details) ==
  [name |-> name,
   description |-> Prop(details, "description"),
   schedule |-> Prop(details, "schedule"),
   current |-> Len(details.participants),
   max |-> details.max_participants,
   participants |-> ParticipantsList(name, details)]

\* a displayActivities that leaves the cards of the last render in place
KeepContainer(old) == old

\* line 24: container.innerHTML = ''
ClearContainer(old) == <<>>

RECURSIVE AppendCards(_, _, _)
AppendCards(container, activities, i) ==
  IF i > Len(activities) THEN [threw |-> FALSE, container |-> container]
  ELSE IF RenderThrows(activities[i].details)
    THEN [threw |-> TRUE, container |-> container]
    ELSE AppendCards(Append(container,
                            Card(activities[i].name, activities[i].details)),
                     activities, i + 1)

displayActivities(old, activities) ==
  AppendCards(ClearContainer(old), activities, 1)

Placeholder == [value |-> "", text |-> "-- Select an activity --"]

\* a populateActivitySelect that appends to the options already there
KeepOptions(old) == old

\* line 59: select.innerHTML = '<option value="">...</option>'
ResetOptions(old) == <<Placeholder>>

populateActivitySelect(old, activities) ==
  [options |-> ResetOptions(old) \o
                 [i \in 1..Len(activities) |->
                    [value |-> activities[i].name, text |-> activities[i].name]],
   value |-> ""]

Fallback == [kind |-> "error", cards |-> <<>>]

\* what loadActivities does with the response to its GET (lines 10-18):
\* the new #activities-list and #activity
loadActivities(resp, oldList, oldSelect) ==
  IF resp.t = "netfail" \/ ~resp.parsed
    THEN [list |-> Fallback, select |-> oldSelect]
    ELSE LET r == displayActivities(oldList.cards, resp.entries)
         IN IF r.threw
              THEN [list |-> Fallback, select |-> oldSelect]
              ELSE [list |-> [kind |-> "cards", cards |-> r.container],
                    select |-> populateActivitySelect(oldSelect.options,
                                                      resp.entries)]

\* the delete buttons on the page (lines 31, 49-51)
Buttons(l) ==
  UNION {{l.cards[i].participants.items[j] :
            j \in 1..Len(l.cards[i].participants.items)} :
         i \in 1..Len(l.cards)}

\* ------------------------------------------------------------ invocations
\* `latest`: the GET this invocation waits for is the one issued last
NewFlow(kind, pc, activity, em) ==
  [kind |-> kind, pc |-> pc, activity |-> activity, email |-> em,
   post |-> NoResp, get |-> NoResp, latest |-> FALSE]

Older(f) == [f EXCEPT !.latest = FALSE]

\* the bag B with every GET in it marked as not the latest
AllOlder(B) ==
  [g \in {Older(f) : f \in BagToSet(B)} |->
     CopiesIn(g, B) + CopiesIn([g EXCEPT !.latest = TRUE], B)]

\* the call of loadActivities up to its `await fetch('/activities')` (line 9),
\* by the invocation f (already taken out of the bag B)
CallLoad(f, B) ==
  AllOlder(B) (+) SetToBag({[f EXCEPT !.pc = "get", !.latest = TRUE]})

Gets(B) == {f \in BagToSet(B) : f.pc = "get"}

\* JS `a || b` on strings and undefined
Or(a, b) == IF a = UNDEF \/ a = "" THEN b ELSE a

\* a handler that reports every failure with its fallback text
OnlyFallback(resp, fallbackText) == fallbackText

\* the message of the error the try block of a write handler ends with
ErrorMessage(resp, fallbackText) ==
  IF resp.t = "netfail" THEN NetErrorMessage
  ELSE IF ~resp.parsed THEN ParseErrorMessage
  ELSE Or(resp.data.detail, fallbackText)

Succeeded(resp) == resp.t = "http" /\ resp.parsed /\ resp.ok

Min(a, b) == IF a < b THEN a ELSE b

Drop(f) == flows (-) SetToBag({f})

Replace(f, g) == Drop(f) (+) SetToBag({g})

\* a handler that takes every response it could parse for a success
RefetchesUnlessThrown(resp) == resp.t = "http" /\ resp.parsed

\* a handler that reloads the catalog whatever the response
RefetchesAlways(resp) == TRUE

\* line 84 / line 126: `if (response.ok)`, reached only when fetch and json
\* did not throw
SignupRefetches(resp) == Succeeded(resp)
DeleteRefetches(resp) == Succeeded(resp)

\* a handleDelete that does not look at the answer of confirm()
ProceedsAnyway(answer) == TRUE

\* line 115: `if (!confirm(...)) return;`
Proceeds(answer) == answer

\* a submit handler that does not reset the form
KeepForm(em, sel) == [email |-> em, select |-> sel]

\* line 93: form.reset() empties #email and selects the default option
ResetForm(em, sel) == [email |-> "", select |-> [sel EXCEPT !.value = ""]]

\* lines 104-106: setTimeout(..., 5000)
Schedule == Append(timers, HideDelayMs)

\* lines 85-87 / 98-100
Show(cls, text) == [classes |-> {"message", cls} \ {"hidden"}, text |-> text]

\* line 105: messageDiv.classList.add('hidden')
Hidden(m) == [m EXCEPT !.classes = @ \cup {"hidden"}]

Init ==
  /\ pageReady = FALSE
  /\ server = [n \in ActivityNames |-> <<>>]
  /\ flows = EmptyBag
  /\ actions = 0
  /\ list = [kind |-> "initial", cards |-> <<>>]
  /\ select = [options |-> <<Placeholder>>, value |-> ""]
  /\ email = ""
  /\ msg = [classes |-> {"hidden"}, text |-> ""]
  /\ alerted = ""
  /\ timers = <<>>
  /\ msgAge = 0
  /\ lastHideAge = -1
  /\ lastArrived = [latest |-> FALSE, entries |-> <<>>]
  /\ getFailed = FALSE
  /\ declined = 0

\* ------------------------------------------------------------------ user
\* lines 2-4: DOMContentLoaded
PageReady ==
  /\ ~pageReady
  /\ pageReady' = TRUE
  /\ flows' = CallLoad(NewFlow("load", "get", "", ""), flows)
  /\ lastArrived' = [lastArrived EXCEPT !.latest = FALSE]
  /\ UNCHANGED <<server, actions, list, select, email, msg, alerted, timers,
                 msgAge, lastHideAge, getFailed, declined>>

\* the user types an email, picks an option of #activity and submits;
\* lines 70-80: the submit handler up to `await fetch(.., {method: 'POST'})`
Submit(em, a) ==
  /\ pageReady
  /\ actions < MaxActions
  /\ \E i \in 1..Len(select.options) : select.options[i].value = a
  /\ email' = em
  /\ select' = [select EXCEPT !.value = a]
  /\ flows' = flows (+) SetToBag({NewFlow("signup", "post", a, em)})
  /\ actions' = actions + 1
  /\ UNCHANGED <<pageReady, server, list, msg, alerted, timers, msgAge,
                 lastHideAge, lastArrived, getFailed, declined>>

\* lines 110-122: handleDelete up to `await fetch(.., {method: 'DELETE'})`
handleDelete(btn, answer) ==
  /\ pageReady
  /\ actions < MaxActions
  /\ btn \in Buttons(list)
  /\ actions' = actions + 1
  /\ declined' = IF answer THEN declined ELSE declined + 1
  /\ flows' = IF Proceeds(answer)
                THEN flows (+) SetToBag({NewFlow("delete", "delete",
                                                 btn.activity, btn.btnEmail)})
                ELSE flows
  /\ UNCHANGED <<pageReady, server, list, select, email, msg, alerted, timers,
                 msgAge, lastHideAge, lastArrived, getFailed>>

\* ---------------------------------------------------------------- server
\* GET /activities (§6): the catalog, or one of the failures of §4.1
GetResponses(cat) ==
  { NetFail,
    Http(TRUE, TRUE, "catalog", NoData, Snapshot(cat)),
    Http(TRUE, TRUE, "degraded", NoData, Without(Snapshot(cat), "description")),
    Http(TRUE, TRUE, "malformed", NoData, Without(Snapshot(cat), "participants")),
    Http(FALSE, TRUE, "error", NoData, ErrorEntries),
    Http(FALSE, TRUE, "empty", NoData, <<>>),
    Http(FALSE, FALSE, "unparseable", NoData, <<>>) }

ServeGet(f, r) ==
  /\ f \in BagToSet(flows) /\ f.pc = "get" /\ f.get = NoResp
  /\ r \in GetResponses(server)
  /\ flows' = Replace(f, [f EXCEPT !.get = r])
  /\ getFailed' = (getFailed \/ r.kind # "catalog")
  /\ UNCHANGED <<pageReady, server, actions, list, select, email, msg, alerted,
                 timers, msgAge, lastHideAge, lastArrived, declined>>

\* the responses of a write that the server refused or that did not arrive
Refusals ==
  {NetFail, Http(FALSE, FALSE, "unparseable", NoData, <<>>)} \cup
  {Http(FALSE, TRUE, "refused", [message |-> UNDEF, detail |-> d], <<>>) :
     d \in Details}

\* the responses of a write that the server carried out
Acceptances ==
  {Http(TRUE, FALSE, "unparseable", NoData, <<>>)} \cup
  {Http(TRUE, TRUE, "accepted", [message |-> m, detail |-> UNDEF], <<>>) :
     m \in SuccessMessages}

InSeq(x, s) == \E i \in 1..Len(s) : s[i] = x

Remove(x, s) == SelectSeq(s, LAMBDA y : y # x)

\* POST /activities/{name}/signup?email= (§6)
ServePost(f, r) ==
  /\ f \in BagToSet(flows) /\ f.pc = "post" /\ f.post = NoResp
  /\ \/ /\ r \in Refusals
        /\ server' = server
     \/ /\ r \in Acceptances
        /\ f.activity \in ActivityNames /\ f.email \in Emails
        /\ ~InSeq(f.email, server[f.activity])
        /\ server' = [server EXCEPT ![f.activity] = Append(@, f.email)]
  /\ flows' = Replace(f, [f EXCEPT !.post = r])
  /\ UNCHANGED <<pageReady, actions, list, select, email, msg, alerted, timers,
                 msgAge, lastHideAge, lastArrived, getFailed, declined>>

\* DELETE /activities/{name}/unregister?email= (§6)
ServeDelete(f, r) ==
  /\ f \in BagToSet(flows) /\ f.pc = "delete" /\ f.post = NoResp
  /\ \/ /\ r \in Refusals
        /\ server' = server
     \/ /\ r \in Acceptances
        /\ f.activity \in ActivityNames
        /\ InSeq(f.email, server[f.activity])
        /\ server' = [server EXCEPT ![f.activity] = Remove(f.email, @)]
  /\ flows' = Replace(f, [f EXCEPT !.post = r])
  /\ UNCHANGED <<pageReady, actions, list, select, email, msg, alerted, timers,
                 msgAge, lastHideAge, lastArrived, getFailed, declined>>

\* ------------------------------------------------------------- resumptions
\* lines 82-101 and 103-106: the submit handler after its POST
SignupResume(f) ==
  /\ f \in BagToSet(flows) /\ f.pc = "post" /\ f.post # NoResp
  /\ msgAge' = 0
  /\ IF SignupRefetches(f.post)
       THEN /\ msg' = Show("success", f.post.data.message)
            /\ flows' = CallLoad(f, Drop(f))
            /\ lastArrived' = [lastArrived EXCEPT !.latest = FALSE]
            /\ UNCHANGED timers
       ELSE /\ msg' = Show("error", ErrorMessage(f.post, SignupFallback))
            /\ flows' = Drop(f)
            /\ timers' = Schedule
            /\ UNCHANGED lastArrived
  /\ UNCHANGED <<pageReady, server, actions, list, select, email, alerted,
                 lastHideAge, getFailed, declined>>

\* lines 124-135: handleDelete after its DELETE
DeleteResume(f) ==
  /\ f \in BagToSet(flows) /\ f.pc = "delete" /\ f.post # NoResp
  /\ IF DeleteRefetches(f.post)
       THEN /\ flows' = CallLoad(f, Drop(f))
            /\ lastArrived' = [lastArrived EXCEPT !.latest = FALSE]
            /\ UNCHANGED alerted
       ELSE /\ flows' = Drop(f)
            /\ alerted' = AlertPrefix \o ErrorMessage(f.post, DeleteFallback)
            /\ UNCHANGED lastArrived
  /\ UNCHANGED <<pageReady, server, actions, list, select, email, msg, timers,
                 msgAge, lastHideAge, getFailed, declined>>

\* lines 10-19, then the caller's continuation: nothing (line 3), lines 92-93
\* and 103-106 (submit), nothing (line 128)
LoadResume(f) ==
  /\ f \in BagToSet(flows) /\ f.pc = "get" /\ f.get # NoResp
  /\ LET r == loadActivities(f.get, list, select)
         form == ResetForm(email, r.select)
     IN /\ list' = r.list
        /\ IF f.kind = "signup"
             THEN /\ email' = form.email
                  /\ select' = form.select
                  /\ timers' = Schedule
             ELSE /\ email' = email
                  /\ select' = r.select
                  /\ timers' = timers
  /\ flows' = Drop(f)
  /\ lastArrived' = [latest |-> f.latest, entries |-> f.get.entries]
  /\ UNCHANGED <<pageReady, server, actions, msg, alerted, msgAge, lastHideAge,
                 getFailed, declined>>

\* ----------------------------------------------------------------- timers
\* lines 104-106: the oldest timer is due and its callback runs
TimerFire ==
  /\ timers # <<>> /\ Head(timers) = 0
  /\ timers' = Tail(timers)
  /\ msg' = Hidden(msg)
  /\ lastHideAge' = IF "hidden" \in msg.classes THEN lastHideAge ELSE msgAge
  /\ UNCHANGED <<pageReady, server, flows, actions, list, select, email,
                 alerted, msgAge, lastArrived, getFailed, declined>>

\* time passes, up to the moment the oldest timer is due
Tick ==
  /\ timers # <<>> => Head(timers) > 0
  /\ LET d == IF timers = <<>> THEN TickMs ELSE Min(TickMs, Head(timers))
     IN /\ timers' = [i \in 1..Len(timers) |-> timers[i] - d]
        /\ msgAge' = IF msgAge + d > HideDelayMs THEN HideDelayMs + 1
                     ELSE msgAge + d
  /\ UNCHANGED <<pageReady, server, flows, actions, list, select, email, msg,
                 alerted, lastHideAge, lastArrived, getFailed, declined>>

\* the clock left out: the delay of the oldest timer has passed and its
\* callback runs.  Every timer waits the same delay, so the timers fire in
\* the order they were set; the network and the user take any time, so the
\* page sees every order of the other steps around them.
Expire ==
  /\ timers # <<>>
  /\ timers' = Tail(timers)
  /\ msg' = Hidden(msg)
  /\ UNCHANGED <<pageReady, server, flows, actions, list, select, email,
                 alerted, msgAge, lastHideAge, lastArrived, getFailed, declined>>

Next ==
  \/ PageReady
  \/ \E em \in Emails, a \in ActivityNames \cup {""} : Submit(em, a)
  \/ \E btn \in Buttons(list), answer \in BOOLEAN : handleDelete(btn, answer)
  \/ \E f \in BagToSet(flows) : \E r \in GetResponses(server) : ServeGet(f, r)
  \/ \E f \in BagToSet(flows) : \E r \in Refusals \cup Acceptances : ServePost(f, r)
  \/ \E f \in BagToSet(flows) : \E r \in Refusals \cup Acceptances : ServeDelete(f, r)
  \/ \E f \in BagToSet(flows) : SignupResume(f)
  \/ \E f \in BagToSet(flows) : DeleteResume(f)
  \/ \E f \in BagToSet(flows) : LoadResume(f)
  \/ Expire

Spec == Init /\ [][Next]_vars

\* the submit handler under the clock
NextTimed ==
  \/ PageReady
  \/ \E em \in Emails, a \in ActivityNames \cup {""} : Submit(em, a)
  \/ \E f \in BagToSet(flows) : \E r \in GetResponses(server) : ServeGet(f, r)
  \/ \E f \in BagToSet(flows) : \E r \in Refusals \cup Acceptances : ServePost(f, r)
  \/ \E f \in BagToSet(flows) : SignupResume(f)
  \/ \E f \in BagToSet(flows) : LoadResume(f)
  \/ TimerFire
  \/ Tick

SpecTimed == Init /\ [][NextTimed]_vars

\* ================================================================ claims
Visible == "hidden" \notin msg.classes

Quiescent == flows = EmptyBag

NumGets(B) == BagCardinality([f \in Gets(B) |-> CopiesIn(f, B)])

\* the step resumes f after the response to its POST or DELETE
Resumes(f) ==
  /\ f.pc \in {"post", "delete"} /\ f.post # NoResp
  /\ CopiesIn(f, flows') < CopiesIn(f, flows)

\* the step resumes f after the response to its GET, which ends f
Reloads(f) ==
  /\ f.pc = "get" /\ f.get # NoResp
  /\ flows' = flows (-) SetToBag({f})

\* the text a failed write is reported with
FailureText(resp, fallbackText) ==
  CASE resp.t = "netfail" -> NetErrorMessage
    [] resp.t = "http" /\ ~resp.parsed -> ParseErrorMessage
    [] resp.t = "http" /\ resp.parsed /\ resp.data.detail \in {UNDEF, ""} ->
         fallbackText
    [] OTHER -> resp.data.detail

\* the list l shows one card per entry, in order, with the entry's roster
ShowsCards(l, entries) ==
  /\ l.kind = "cards"
  /\ Len(l.cards) = Len(entries)
  /\ \A i \in 1..Len(entries) :
       /\ l.cards[i].name = entries[i].name
       /\ l.cards[i].current = Len(entries[i].details.participants)
       /\ l.cards[i].max = entries[i].details.max_participants
       /\ Len(l.cards[i].participants.items) = Len(entries[i].details.participants)
       /\ \A j \in 1..Len(entries[i].details.participants) :
            /\ l.cards[i].participants.items[j].email =
                 entries[i].details.participants[j]
            /\ l.cards[i].participants.items[j].activity = entries[i].name

\* the options are the placeholder, then one option per entry, in order
ShowsOptions(options, entries) ==
  /\ Len(options) = Len(entries) + 1
  /\ options[1] = Placeholder
  /\ \A i \in 1..Len(entries) : options[i + 1].value = entries[i].name

\* C1: when a submission's POST comes back with a success status and
\* {message: m}, the step that resumes the handler shows m as a visible
\* success message and issues one GET /activities, with the list and the form
\* still as they were; the form is emptied (no email, no activity selected)
\* only in the later step that has processed the response to that GET.
C1_SuccessShowsThenRefetchesThenResets ==
  [][\A f \in BagToSet(flows) :
       /\ (f.kind = "signup" /\ Resumes(f) /\ Succeeded(f.post)) =>
            /\ msg' = [classes |-> {"message", "success"},
                       text |-> f.post.data.message]
            /\ NumGets(flows') = NumGets(flows) + 1
            /\ UNCHANGED <<list, select, email, timers>>
       /\ (f.kind = "signup" /\ Reloads(f)) =>
            /\ Succeeded(f.post)
            /\ f.get.kind = "catalog" => ShowsCards(list', f.get.entries)
            /\ email' = "" /\ select'.value = ""
            /\ UNCHANGED msg
     ]_vars

\* a submission succeeded, its refetch was rendered and the form was reset
C1_Witness ==
  /\ Visible /\ "success" \in msg.classes /\ msg.text = "Signed up!"
  /\ email = "" /\ select.value = ""
  /\ list.kind = "cards" /\ Buttons(list) # {}
  /\ timers # <<>>

\* C2: when a submission's POST comes back with a non-success status, or the
\* request or the parsing of its body throws, the handler shows a visible
\* error message whose text is the server's detail (the fallback text when
\* there is no detail, or an empty one) or the thrown error's message, issues
\* no GET /activities and leaves the form as it was.
C2_FailureShowsErrorOnly ==
  [][\A f \in BagToSet(flows) :
       (f.kind = "signup" /\ Resumes(f) /\ ~Succeeded(f.post)) =>
          /\ msg' = [classes |-> {"message", "error"},
                     text |-> FailureText(f.post, SignupFallback)]
          /\ NumGets(flows') = NumGets(flows)
          /\ UNCHANGED <<list, select, email>>
     ]_vars

\* a refused submission was reported with the server's detail
C2_Witness ==
  /\ Visible /\ "error" \in msg.classes /\ msg.text = "Already signed up"
  /\ email # ""

\* C3: a shown status message is never visible more than 5 seconds after it
\* was shown, and whenever it was hidden it was hidden exactly 5 seconds
\* after it was shown.
C3_HiddenExactlyAfterDelay ==
  /\ Visible => msgAge <= HideDelayMs
  /\ lastHideAge # -1 => lastHideAge = HideDelayMs

\* C4: when the GET of loadActivities fails (network failure, non-success
\* status or unparseable body), loadActivities leaves the fallback message in
\* the activity list.
C4_FailedGetShowsFallback ==
  [][\A f \in BagToSet(flows) :
       (Reloads(f) /\ (f.get.t = "netfail" \/ ~f.get.ok \/ ~f.get.parsed)) =>
          list' = Fallback
     ]_vars

\* C5: a declined confirmation issues no request and changes nothing on the
\* page: cards, options, form fields, status message, alerts and timers.
C5_DeclineChangesNothing ==
  [][declined' # declined =>
       UNCHANGED <<server, flows, list, select, email, msg, alerted, timers>>
     ]_vars

\* the user declined over a rendered participant
C5_Witness == declined > 0 /\ Buttons(list) # {}

\* C6: a confirmed unregister whose DELETE succeeded issues one
\* GET /activities and raises no alert; one whose DELETE failed raises an
\* alert with the error's text and issues no GET; neither of them, nor the
\* rerender after the refetch, touches the status message or its timers.
C6_UnregisterOutcome ==
  [][\A f \in BagToSet(flows) :
       /\ (f.kind = "delete" /\ Resumes(f)) =>
            /\ UNCHANGED <<msg, timers, list, select, email>>
            /\ IF Succeeded(f.post)
                 THEN /\ NumGets(flows') = NumGets(flows) + 1
                      /\ alerted' = alerted
                 ELSE /\ NumGets(flows') = NumGets(flows)
                      /\ alerted' = AlertPrefix \o
                                      FailureText(f.post, DeleteFallback)
       /\ (f.kind = "delete" /\ Reloads(f)) =>
            /\ UNCHANGED <<msg, timers, email, alerted>>
            /\ f.get.kind = "catalog" => ShowsCards(list', f.get.entries)
     ]_vars

\* an unregister was refused: the alert is up, the participant still listed
C6_Witness ==
  /\ alerted = AlertPrefix \o "Already signed up"
  /\ Quiescent
  /\ Buttons(list) # {}

\* C7: a step issues at most one GET /activities, and the step that issues
\* one is page-ready or the resumption of one signup or unregister whose own
\* response has arrived with a success status; every such resumption issues
\* exactly one, and a failed or declined action issues none.
C7_RefetchOnlyAfterOwnSuccess ==
  [][/\ NumGets(flows') > NumGets(flows) =>
          /\ NumGets(flows') = NumGets(flows) + 1
          /\ \/ ~pageReady /\ pageReady'
             \/ \E f \in BagToSet(flows) : Resumes(f) /\ Succeeded(f.post)
     /\ \A f \in BagToSet(flows) :
          Resumes(f) =>
            NumGets(flows') = NumGets(flows) + (IF Succeeded(f.post) THEN 1 ELSE 0)
     /\ declined' # declined => NumGets(flows') = NumGets(flows)
     /\ \A f \in BagToSet(flows') :
          (f.pc = "get" /\ f.kind # "load") => Succeeded(f.post)
    ]_vars

\* two actions are refetching at once
C7_Witness ==
  /\ \E f \in BagToSet(flows) : f.pc = "get" /\ f.kind = "signup"
  /\ NumGets(flows) = 2

\* C8: while the list shows cards, the cards and the options are those of
\* the last catalog rendered alone (one card and one option per key, the
\* placeholder first), and rendering that catalog again changes neither.
C8_RenderReplaces ==
  list.kind = "cards" =>
    /\ ShowsCards(list, lastArrived.entries)
    /\ ShowsOptions(select.options, lastArrived.entries)
    /\ displayActivities(list.cards, lastArrived.entries).container = list.cards
    /\ populateActivitySelect(select.options, lastArrived.entries).options =
         select.options

\* a catalog with a participant was rendered over an earlier render
C8_Witness ==
  /\ list.kind = "cards" /\ Len(list.cards) = 2 /\ Buttons(list) # {}
  /\ Len(select.options) = 3

\* C9: rendering a catalog the server answered, malformed entries included,
\* does not raise and gives a card for every entry.
C9_RenderNeverRaises ==
  \A f \in BagToSet(flows) :
    (f.get.t = "http" /\ f.get.parsed /\
     f.get.kind \in {"catalog", "degraded", "malformed"}) =>
       LET r == displayActivities(list.cards, f.get.entries)
       IN ~r.threw /\ Len(r.container) = Len(f.get.entries)

\* C10 as stated: with no request in flight and every GET answered with the
\* catalog, the page shows the response to the GET issued last.
C10_ShowsLatestIssued ==
  (pageReady /\ Quiescent /\ ~getFailed) =>
    /\ lastArrived.latest
    /\ ShowsCards(list, lastArrived.entries)
    /\ ShowsOptions(select.options, lastArrived.entries)

\* C10 amended: with no request in flight and every GET answered with the
\* catalog, the page shows the response that arrived last, whichever GET it
\* answers.
C10_ShowsLastArrived ==
  (pageReady /\ Quiescent /\ ~getFailed) =>
    /\ ShowsCards(list, lastArrived.entries)
    /\ ShowsOptions(select.options, lastArrived.entries)

\* the page is at rest on the response to an earlier GET, which is not the
\* server's catalog
C10_Witness ==
  /\ pageReady /\ Quiescent /\ ~getFailed
  /\ ~lastArrived.latest
  /\ lastArrived.entries # Snapshot(server)
  /\ ShowsCards(list, lastArrived.entries)

====
